---- MODULE Spec2Model ----
(***************************************************************************)
(* Model of lib/utils.py (PCK, PCK_curve_pnts, get_kpts, evaluate) and of  *)
(* lib/model/disc.py (smooth_l1_loss, discrepancy).                        *)
(*                                                                         *)
(* Numbers.  Pixel coordinates, heat-map responses and side lengths are    *)
(* integers.  A fraction (an alpha of the sweep, a normalised score, a     *)
(* loss) is an exact rational <<num, den>> with den > 0; floating-point    *)
(* rounding is not modelled.  Head predictions of the discrepancy module   *)
(* are fixed-point numbers k / Scale.                                      *)
(*                                                                         *)
(* Tensors.  A tensor is a sequence of its slices along the first axis; a  *)
(* heat map is a sequence of rows, a batch of heat maps a sequence         *)
(* (images) of sequences (channels) of heat maps, a keypoint set [N, C, 2] *)
(* a sequence of sequences of pairs <<x, y>>.  Python's 0-based indices    *)
(* are kept for argmax/unravel_index; sequences are 1-based.               *)
(***************************************************************************)
EXTENDS Integers, Sequences, FiniteSets, TLC

VARIABLES
    \* ---- one call of evaluate ----
    args,             \* the arguments of the call (lines 54-55)
    loader,           \* the batches the dataloader yields, in iterator order
    training,         \* net.training of every network object
    pc,               \* position of the call
    nets,             \* line 81
    previous_states,  \* line 82
    tot_nkpts,        \* line 89
    tot_pnt,          \* line 90
    idx,              \* line 91
    result,           \* what the call returned, <<>> before
    err,              \* the exception that left the call, "" if none
    \* ---- observations of the call's effects (history) ----
    pre_training,     \* training as it was when evaluate was called
    fetched,          \* batch indices taken from the iterator, in order
    invoked,          \* network forward calls made
    rendered,         \* vis_kpt calls made: <<batch index, "gt" | "pred">>
    scored,           \* batch indices whose counts were added to tot_nkpts
    logged,           \* logger.add_figure calls made
    \* ---- one call of a pure function (get_kpts, PCK, discrepancy) ----
    call,             \* its arguments
    ret               \* its results, <<>> until the call has been made

evalVars == <<args, loader, training, pc, nets, previous_states, tot_nkpts,
              tot_pnt, idx, result, err, pre_training, fetched, invoked,
              rendered, scored, logged>>
fnVars == <<call, ret>>
vars == <<evalVars, fnVars>>

None == "None"

(***************************************************************************)
(* Bounds of the checked instances.                                        *)
(***************************************************************************)
\* heat maps of get_kpts have 1..MaxDim rows and columns
MaxDim == 4
\* target image sizes of get_kpts are 1..MaxImg
MaxImg == 8
\* batch and channel counts of a multi-channel tensor are 1..MaxChan
MaxChan == 2

(***************************************************************************)
(* Arithmetic helpers.                                                     *)
(***************************************************************************)
Abs(x) == IF x < 0 THEN -x ELSE x

\* Python's int(num / den): truncation towards zero (den > 0).
int(num, den) == IF num >= 0 THEN num \div den ELSE -((-num) \div den)

\* rationals <<num, den>>, den > 0
REq(a, b) == a[1] * b[2] = b[1] * a[2]
RLeq(a, b) == a[1] * b[2] <= b[1] * a[2]

RECURSIVE SumSeq(_)
SumSeq(s) == IF s = <<>> THEN 0 ELSE Head(s) + SumSeq(Tail(s))

RECURSIVE Concat(_)
\* the elements of a sequence of sequences, in order
Concat(ss) == IF ss = <<>> THEN <<>> ELSE Head(ss) \o Concat(Tail(ss))

(***************************************************************************)
(* get_kpts (utils.py 39-51).                                              *)
(***************************************************************************)
\* m.shape of a 2-D array: (rows, columns)
shape(m) == <<Len(m), Len(m[1])>>

\* element i (0-based) of m in row-major (C) order
Flat(m, i) == m[(i \div shape(m)[2]) + 1][(i % shape(m)[2]) + 1]

RECURSIVE ArgmaxScan(_, _, _)
\* (variant of ArgmaxScan: ties go to the last maximum)
ArgmaxScanLast(m, i, best) ==
    IF i = shape(m)[1] * shape(m)[2] THEN best
    ELSE ArgmaxScan(m, i + 1, IF Flat(m, i) >= Flat(m, best) THEN i ELSE best)
\* numpy's argmax scan: a later element replaces the best only if strictly greater
ArgmaxScan(m, i, best) ==
    IF i = shape(m)[1] * shape(m)[2] THEN best
    ELSE ArgmaxScan(m, i + 1, IF Flat(m, i) > Flat(m, best) THEN i ELSE best)

\* m.argmax(): flat index of the first maximum
argmax(m) == ArgmaxScan(m, 1, 0)

\* np.unravel_index(i, shp) for a 2-D shape: (row, column)
unravel_index(i, shp) == <<i \div shp[2], i % shp[2]>>

\* lines 46-49: one channel's keypoint [x, y]
ChannelKpt(m, img_h, img_w) ==
    LET hw == unravel_index(argmax(m), shape(m))
    IN  <<int(hw[2] * img_w, shape(m)[2]), int(hw[1] * img_h, shape(m)[1])>>

get_kpts(maps, img_h, img_w) ==
    [n \in 1..Len(maps) |->
        [c \in 1..Len(maps[n]) |-> ChannelKpt(maps[n][c], img_h, img_w)]]

(***************************************************************************)
(* PCK and PCK_curve_pnts (utils.py 11-30).                                *)
(***************************************************************************)
\* line 21 and the sum of line 23: squared Euclidean distance of two points
SqDist(p, g) == (p[1] - g[1]) * (p[1] - g[1]) + (p[2] - g[2]) * (p[2] - g[2])

\* (variant of Within: the comparison of line 24 made non-strict)
WithinOrOn(d2, norm_dis) ==
    /\ norm_dis[1] >= 0
    /\ d2 * norm_dis[2] * norm_dis[2] <= norm_dis[1] * norm_dis[1]
\* lines 23-24: sqrt(d2) < norm_dis, for a rational norm_dis = <<num, den>>
Within(d2, norm_dis) ==
    /\ norm_dis[1] > 0
    /\ d2 * norm_dis[2] * norm_dis[2] < norm_dis[1] * norm_dis[1]

\* line 24: (dis < norm_dis).float(), flattened in order
Hits(pred, gt, norm_dis) ==
    Concat([n \in 1..Len(pred) |->
              [c \in 1..Len(pred[n]) |->
                 IF Within(SqDist(pred[n][c], gt[n][c]), norm_dis) THEN 1 ELSE 0]])

\* PCK(pred, gt, img_side_len, alpha) -> (fraction, count)
PCK(pred, gt, img_side_len, alpha) ==
    LET norm_dis == <<alpha[1] * img_side_len, alpha[2]>>
        hits     == Hits(pred, gt, norm_dis)
        nkpt     == SumSeq(hits)
    IN  <<<<nkpt, Len(hits)>>, nkpt>>

\* (variant of PCK_curve_pnts: the sweep is walked backwards)
PCK_curve_pnts_reversed(sp, pred, gt, img_side_len) ==
    [i \in 1..Len(sp) |-> PCK(pred, gt, img_side_len, sp[Len(sp) + 1 - i])[2]]
PCK_curve_pnts(sp, pred, gt, img_side_len) ==
    [i \in 1..Len(sp) |-> PCK(pred, gt, img_side_len, sp[i])[2]]

(***************************************************************************)
(* smooth_l1_loss and discrepancy (disc.py 4-30).                          *)
(***************************************************************************)
\* predictions are fixed-point: the integer k stands for k / Scale
Scale == 2

\* line 9: n = |input - target|, elementwise, in units of 1 / Scale
AbsDiff(input, target) == [i \in 1..Len(input) |-> Abs(input[i] - target[i])]

\* (variant of ElementLoss: the two branches of torch.where exchanged)
ElementLossSwapped(k, beta) ==
    IF k < beta * Scale THEN Scale * beta * (2 * k - beta * Scale) ELSE k * k
\* lines 10-11 for one element n = k / Scale, as a numerator over
\* 2 * Scale^2 * beta:  0.5 n^2 / beta  if n < beta,  n - 0.5 beta  otherwise
ElementLoss(k, beta) ==
    IF k < beta * Scale THEN k * k ELSE Scale * beta * (2 * k - beta * Scale)

\* smooth_l1_loss(input, target, beta, size_average) as a rational
smooth_l1_loss(input, target, beta, size_average) ==
    LET n    == AbsDiff(input, target)
        loss == [i \in 1..Len(n) |-> ElementLoss(n[i], beta)]
        den  == 2 * Scale * Scale * beta
    IN  IF size_average THEN <<SumSeq(loss), den * Len(loss)>>
        ELSE <<SumSeq(loss), den>>

\* a network applied to a batch: the same function on every sample
Apply(net, batch) == [i \in 1..Len(batch) |-> net[batch[i]]]

\* (variant of RAbsDiff: the torch.abs of line 30 dropped)
RDiff(a, b) == <<a[1] * b[2] - b[1] * a[2], a[2] * b[2]>>
\* torch.abs(a - b) of two rationals
RAbsDiff(a, b) == <<Abs(a[1] * b[2] - b[1] * a[2]), a[2] * b[2]>>

\* lines 22-23 and 28 (25-26 and 29): the default criterion (beta = 1, mean)
\* on the two heads' predictions for one domain's features
Disagreement(feat, h1, h2) ==
    smooth_l1_loss(Apply(h1, feat), Apply(h2, feat), 1, TRUE)

\* discrepancy(source_data, target_data, base_net, h1, h2)
discrepancy(source_data, target_data, base_net, h1, h2) ==
    LET source_feat == Apply(base_net, source_data)
        target_feat == Apply(base_net, target_data)
        union_feat  == source_feat \o target_feat
        src_disc    == Disagreement(source_feat, h1, h2)
        tgt_disc    == Disagreement(target_feat, h1, h2)
    IN  <<union_feat, RAbsDiff(src_disc, tgt_disc)>>

(***************************************************************************)
(* evaluate (utils.py 54-145).                                             *)
(***************************************************************************)
NetObjs == {"A", "B", "C"}

\* np.linspace(start, stop, num) on rationals
linspace(start, stop, num) ==
    [i \in 1..num |->
        <<start[1] * stop[2] * (num - 1)
              + (i - 1) * (stop[1] * start[2] - start[1] * stop[2]),
          start[2] * stop[2] * (num - 1)>>]

\* line 87
thresholds == linspace(<<0, 1>>, <<2, 10>>, 21)

\* (variant of ConfigOK: the assertion of line 71 missing)
ConfigOKBaseOnly(a) == a.base_net # None
\* lines 70-71: both assertions pass
ConfigOK(a) ==
    /\ a.base_net # None
    /\ a.pred_net_1 # None \/ a.pred_net_2 # None

\* lines 73-77
PredNets(a) ==
    (IF a.pred_net_1 # None THEN <<a.pred_net_1>> ELSE <<>>)
        \o (IF a.pred_net_2 # None THEN <<a.pred_net_2>> ELSE <<>>)

RECURSIVE SwitchToEval(_, _, _)
\* lines 82-85: for each net in order, record net.training, then net.eval();
\* yields <<previous_states, training>>
SwitchToEval(ns, states, tr) ==
    IF ns = <<>> THEN <<states, tr>>
    ELSE SwitchToEval(Tail(ns), Append(states, tr[Head(ns)]),
                      [tr EXCEPT ![Head(ns)] = FALSE])

RECURSIVE Recover(_, _, _)
\* lines 132-133: for state, net in zip(previous_states, nets): net.train(state)
Recover(states, ns, tr) ==
    IF states = <<>> \/ ns = <<>> THEN tr
    ELSE Recover(Tail(states), Tail(ns), [tr EXCEPT ![Head(ns)] = Head(states)])

\* elementwise sum of two (N, C, H, W) tensors
TensorAdd(a, b) ==
    [n \in 1..Len(a) |-> [c \in 1..Len(a[n]) |->
        [h \in 1..Len(a[n][c]) |-> [w \in 1..Len(a[n][c][h]) |->
            a[n][c][h][w] + b[n][c][h][w]]]]]

\* what pred_nets[i] returns on the features of batch b: b.heat[i], and the
\* first response again when the same network object stands in both places
HeadOut(b, pred_nets, i) ==
    IF i = 2 /\ pred_nets[1] = pred_nets[2] THEN b.heat[1] ELSE b.heat[i]

\* lines 107-110.  One head: its output.  Two heads: (out_1 + out_2) / 2, held
\* as the sum, that is in units of 1/2
Heats(b, pred_nets) ==
    IF Len(pred_nets) = 1 THEN HeadOut(b, pred_nets, 1)
    ELSE TensorAdd(HeadOut(b, pred_nets, 1), HeadOut(b, pred_nets, 2))

\* line 113
BatchKpts(b, a) == get_kpts(Heats(b, PredNets(a)), a.img_size, a.img_size)

\* kpts.numel() / 2 of line 115
NumPoints(kpts) == SumSeq([n \in 1..Len(kpts) |-> Len(kpts[n])])

\* gt_kpts[..., :2] of line 117
XY(gt) == [n \in 1..Len(gt) |-> [c \in 1..Len(gt[n]) |-> <<gt[n][c][1], gt[n][c][2]>>]]

\* line 117
BatchCounts(b, a) == PCK_curve_pnts(thresholds, BatchKpts(b, a), XY(b.gt_kpts), a.img_size)

\* lines 118-119
Accumulate(tot, nkpts) == [i \in 1..Len(tot) |-> tot[i] + nkpts[i]]

\* (variant of ShouldRender: the interval test taken on the count of batches)
ShouldRenderOffByOne(a, k) == a.vis /\ (k + 1) % a.disp_interval = 0
\* line 121
ShouldRender(a, k) == a.vis /\ k % a.disp_interval = 0

\* the vis_kpt call of lines 125-126 and the one of lines 127-128
GtEvent(b, a, k) ==
    [kind |-> "gt", batch |-> k, pnts |-> XY(b.gt_kpts)[1], tag |-> k \div a.disp_interval]
PredEvent(b, a, k) ==
    [kind |-> "pred", batch |-> k, pnts |-> BatchKpts(b, a)[1], tag |-> k \div a.disp_interval]

\* lines 121-128 carried out in full
RenderEvents(b, a, k) ==
    IF ShouldRender(a, k)
    THEN (IF a.show_gt THEN <<GtEvent(b, a, k)>> ELSE <<>>) \o <<PredEvent(b, a, k)>>
    ELSE <<>>

\* (variant of Scores: the first score taken one sweep index too low)
ScoresOffByOne(tot) == <<tot[5], tot[Len(tot)]>>
\* line 145: tot_nkpts[5], tot_nkpts[-1] (0-based 5 is the sixth entry)
Scores(tot) == <<tot[6], tot[Len(tot)]>>

\* evaluate(...) up to the start of the loop: lines 70-96
Call ==
    /\ pc = "idle"
    /\ IF ~ConfigOK(args)
       THEN /\ pc' = "raised"
            /\ err' = "AssertionError"
            /\ UNCHANGED <<training, nets, previous_states, tot_nkpts, tot_pnt, idx>>
       ELSE LET ns == <<args.base_net>> \o PredNets(args)
                sw == SwitchToEval(ns, <<>>, training)
            IN  /\ nets' = ns
                /\ previous_states' = sw[1]
                /\ training' = sw[2]
                /\ tot_nkpts' = [i \in 1..Len(thresholds) |-> 0]
                /\ tot_pnt' = 0
                /\ idx' = 0
                /\ pc' = "loop"
                /\ UNCHANGED err
    /\ UNCHANGED <<args, loader, result, pre_training, fetched, invoked,
                   rendered, scored, logged, fnVars>>

\* one pass of the loop body, lines 98-129
Batch ==
    /\ pc = "loop" /\ idx < Len(loader)
    /\ LET b == loader[idx + 1]
       IN  /\ fetched' = Append(fetched, idx)
           /\ invoked' = invoked + 1 + Len(PredNets(args))
           /\ tot_pnt' = tot_pnt + NumPoints(BatchKpts(b, args))
           /\ tot_nkpts' = Accumulate(tot_nkpts, BatchCounts(b, args))
           /\ scored' = Append(scored, idx)
           /\ rendered' = rendered \o RenderEvents(b, args, idx)
    /\ idx' = idx + 1
    /\ UNCHANGED <<args, loader, training, pc, nets, previous_states, result,
                   err, pre_training, logged, fnVars>>

\* the places of the loop body where a collaborator can raise, in order
LoopSteps == <<"fetch", "base_net", "pred_net_1", "pred_net_2", "get_kpts",
               "PCK", "denormalize", "vis_gt", "vis_pred">>
StepNo(s) == CHOOSE i \in 1..Len(LoopSteps) : LoopSteps[i] = s

\* one pass of the loop body that ends in an exception raised at `step`: the
\* statements before it have run, the exception leaves evaluate
BatchRaises ==
    /\ pc = "loop" /\ idx < Len(loader)
    /\ \E step \in {LoopSteps[i] : i \in 1..Len(LoopSteps)} :
        LET b == loader[idx + 1]
            at == StepNo(step)
        IN  /\ step = "pred_net_2" => Len(PredNets(args)) = 2
            /\ step \in {"denormalize", "vis_gt", "vis_pred"} => ShouldRender(args, idx)
            /\ step = "vis_gt" => args.show_gt
            /\ fetched' = IF at > StepNo("fetch") THEN Append(fetched, idx) ELSE fetched
            /\ invoked' = invoked
                  + (IF at >= StepNo("base_net") THEN 1 ELSE 0)
                  + (IF at >= StepNo("pred_net_1") THEN 1 ELSE 0)
                  + (IF at >= StepNo("pred_net_2") /\ Len(PredNets(args)) = 2
                     THEN 1 ELSE 0)
            /\ tot_pnt' = IF at >= StepNo("PCK")
                          THEN tot_pnt + NumPoints(BatchKpts(b, args)) ELSE tot_pnt
            /\ IF at > StepNo("PCK")
               THEN /\ tot_nkpts' = Accumulate(tot_nkpts, BatchCounts(b, args))
                    /\ scored' = Append(scored, idx)
               ELSE UNCHANGED <<tot_nkpts, scored>>
            /\ rendered' = IF step = "vis_pred" /\ args.show_gt
                           THEN Append(rendered, GtEvent(b, args, idx)) ELSE rendered
    /\ pc' = "raised"
    /\ err' = "Exception"
    /\ UNCHANGED <<args, loader, training, nets, previous_states, idx, result,
                   pre_training, logged, fnVars>>

\* the loader is exhausted: lines 131-133
ExitLoop ==
    /\ pc = "loop" /\ idx = Len(loader)
    /\ training' = Recover(previous_states, nets, training)
    /\ pc' = "recovered"
    /\ UNCHANGED <<args, loader, nets, previous_states, tot_nkpts, tot_pnt, idx,
                   result, err, pre_training, fetched, invoked, rendered,
                   scored, logged, fnVars>>

\* (variant of DivisionRaises: dividing by zero yields a value, as in numpy)
DivisionNeverRaises(divisor) == FALSE
\* the division of line 136 on Python numbers: raises iff the divisor is 0
DivisionRaises(divisor) == divisor = 0

\* lines 135-136; a raising division raises at the first entry
Normalize ==
    /\ pc = "recovered"
    /\ IF DivisionRaises(tot_pnt)
       THEN /\ pc' = "raised"
            /\ err' = "ZeroDivisionError"
            /\ UNCHANGED tot_nkpts
       ELSE /\ tot_nkpts' = [i \in 1..Len(tot_nkpts) |-> <<tot_nkpts[i], tot_pnt>>]
            /\ pc' = "normalized"
            /\ UNCHANGED err
    /\ UNCHANGED <<args, loader, training, nets, previous_states, tot_pnt, idx,
                   result, pre_training, fetched, invoked, rendered, scored,
                   logged, fnVars>>

\* lines 138-145: the curve is drawn and logged, the two scores returned
LogCurveAndReturn ==
    /\ pc = "normalized"
    /\ logged' = logged + 1
    /\ result' = Scores(tot_nkpts)
    /\ pc' = "returned"
    /\ UNCHANGED <<args, loader, training, nets, previous_states, tot_nkpts,
                   tot_pnt, idx, err, pre_training, fetched, invoked, rendered,
                   scored, fnVars>>

\* lines 139-143 raise (the plotting backend, or the logger: None by default)
LogCurveRaises ==
    /\ pc = "normalized"
    /\ pc' = "raised"
    /\ err' = "Exception"
    /\ UNCHANGED <<args, loader, training, nets, previous_states, tot_nkpts,
                   tot_pnt, idx, result, pre_training, fetched, invoked,
                   rendered, scored, logged, fnVars>>

Next == Call \/ Batch \/ BatchRaises \/ ExitLoop \/ Normalize
            \/ LogCurveAndReturn \/ LogCurveRaises

(***************************************************************************)
(* evaluate is not running in the specifications of the pure functions.    *)
(***************************************************************************)
EvalUnused ==
    /\ args = <<>> /\ loader = <<>> /\ training = <<>> /\ pc = "unused"
    /\ nets = <<>> /\ previous_states = <<>> /\ tot_nkpts = <<>>
    /\ tot_pnt = 0 /\ idx = 0 /\ result = <<>> /\ err = ""
    /\ pre_training = <<>> /\ fetched = <<>> /\ invoked = 0
    /\ rendered = <<>> /\ scored = <<>> /\ logged = 0

(***************************************************************************)
(* SpecKpts: one call of get_kpts on a heat-map batch.                     *)
(***************************************************************************)
\* a heat map that is 0 except for 1 at cell p and v at cell q
HeatMap(H, W, p, q, v) ==
    [h \in 1..H |-> [w \in 1..W |->
        IF <<h, w>> = q THEN v ELSE IF <<h, w>> = p THEN 1 ELSE 0]]

Cells(H, W) == (1..H) \X (1..W)

\* the values a second marked cell takes: a dip below the rest, an equal
\* peak, a higher peak
PeakValues == {-1, 1, 2}

\* (1, 1, H, W) tensors with every peak pattern
InitKptsPeaks ==
    \E H \in 1..MaxDim, W \in 1..MaxDim, ih \in 1..MaxImg, iw \in 1..MaxImg :
      \E p \in Cells(H, W), q \in Cells(H, W), v \in PeakValues :
        call = [fn |-> "get_kpts", maps |-> <<<<HeatMap(H, W, p, q, v)>>>>,
                img_h |-> ih, img_w |-> iw]

\* (N, C, H, W) tensors of one-hot maps with two cells
InitKptsBatch ==
    \E N \in 1..MaxChan, C \in 1..MaxChan, d \in {<<1, 2>>, <<2, 1>>},
       ih \in {MaxImg - 1, MaxImg}, iw \in {MaxImg - 1, MaxImg} :
      \E ps \in [1..N -> [1..C -> Cells(d[1], d[2])]] :
        call = [fn |-> "get_kpts",
                maps |-> [n \in 1..N |-> [c \in 1..C |->
                            HeatMap(d[1], d[2], ps[n][c], ps[n][c], 1)]],
                img_h |-> ih, img_w |-> iw]

InitKpts == EvalUnused /\ (InitKptsPeaks \/ InitKptsBatch) /\ ret = <<>>

CallGetKpts ==
    /\ call.fn = "get_kpts" /\ ret = <<>>
    /\ ret' = <<get_kpts(call.maps, call.img_h, call.img_w)>>
    /\ UNCHANGED <<call, evalVars>>

SpecKpts == InitKpts /\ [][CallGetKpts]_vars

\* q is num / den truncated, for num >= 0 and den > 0
IsTrunc(q, num, den) == q * den <= num /\ num < (q + 1) * den

\* (h, w), 0-based, is the first cell in row-major order holding m's maximum
IsFirstMax(m, h, w) ==
    \A h2 \in 0..(Len(m) - 1), w2 \in 0..(Len(m[1]) - 1) :
        /\ m[h2 + 1][w2 + 1] <= m[h + 1][w + 1]
        /\ m[h2 + 1][w2 + 1] = m[h + 1][w + 1] => (h2 > h \/ (h2 = h /\ w2 >= w))

\* C5: get_kpts returns, for each image and channel in input order, the pair
\* (x, y) = (trunc(w * img_w / W), trunc(h * img_h / H)) where (h, w) is the
\* first row-major position of the channel's maximum; so 0 <= x < img_w and
\* 0 <= y < img_h; and a 1x1x4x4 map with its maximum at row 1, column 2 and
\* target size 8x8 yields (4, 2).
C5_KptsAtFirstMaximum ==
    ret # <<>> =>
        LET out == ret[1]
            maps == call.maps
        IN  /\ Len(out) = Len(maps)
            /\ \A n \in 1..Len(maps) :
                 /\ Len(out[n]) = Len(maps[n])
                 /\ \A c \in 1..Len(maps[n]) :
                      LET m == maps[n][c]
                          x == out[n][c][1]
                          y == out[n][c][2]
                      IN  /\ Len(out[n][c]) = 2
                          /\ \E h \in 0..(Len(m) - 1), w \in 0..(Len(m[1]) - 1) :
                               /\ IsFirstMax(m, h, w)
                               /\ IsTrunc(x, w * call.img_w, Len(m[1]))
                               /\ IsTrunc(y, h * call.img_h, Len(m))
                          /\ 0 <= x /\ x < call.img_w
                          /\ 0 <= y /\ y < call.img_h
            /\ ( /\ Len(maps) = 1 /\ Len(maps[1]) = 1
                 /\ Len(maps[1][1]) = 4 /\ Len(maps[1][1][1]) = 4
                 /\ IsFirstMax(maps[1][1], 1, 2)
                 /\ call.img_w = 8 /\ call.img_h = 8 )
               => out = << << <<4, 2>> >> >>

\* C5 witness: get_kpts has run on a 1x1x4x4 map whose maximum, held by two
\* cells, is first met at row 1, column 2, with target size 8x8
C5_Witness ==
    /\ ret # <<>>
    /\ call.maps = << << HeatMap(4, 4, <<2, 3>>, <<4, 1>>, 1) >> >>
    /\ call.img_w = 8 /\ call.img_h = 8

(***************************************************************************)
(* SpecPCK: one call of PCK or of PCK_curve_pnts on keypoint sets.         *)
(***************************************************************************)
\* coordinates are 0..MaxCoord
MaxCoord == 1
\* side lengths are 1..MaxSide
MaxSide == 2
\* alphas are 0/2, 1/2, ..., MaxAlpha/2
MaxAlpha == 2

Points == (0..MaxCoord) \X (0..MaxCoord)
Alphas == {<<k, 2>> : k \in 0..MaxAlpha}

\* shapes [N, C, 2] of the keypoint sets: [1, 1, 2], [1, 2, 2] and [2, 1, 2]
KptShapes == {<<1, 1>>, <<1, 2>>, <<2, 1>>}
KptSets(d) == [1..d[1] -> [1..d[2] -> Points]]

\* pred and gt of one shape, a side length, and an alpha or a two-alpha sweep
InitPCK ==
    /\ EvalUnused
    /\ \E d \in KptShapes, s \in 1..MaxSide :
         \E p \in KptSets(d), g \in KptSets(d) :
            \/ \E a \in Alphas :
                 call = [fn |-> "PCK", pred |-> p, gt |-> g,
                         img_side_len |-> s, alpha |-> a]
            \/ \E a1 \in Alphas, a2 \in Alphas :
                 call = [fn |-> "PCK_curve_pnts", pred |-> p, gt |-> g,
                         img_side_len |-> s, sp |-> <<a1, a2>>]
    /\ ret = <<>>

CallPCK ==
    /\ call.fn = "PCK" /\ ret = <<>>
    /\ ret' = <<PCK(call.pred, call.gt, call.img_side_len, call.alpha)>>
    /\ UNCHANGED <<call, evalVars>>

CallPCKCurve ==
    /\ call.fn = "PCK_curve_pnts" /\ ret = <<>>
    /\ ret' = <<PCK_curve_pnts(call.sp, call.pred, call.gt, call.img_side_len)>>
    /\ UNCHANGED <<call, evalVars>>

SpecPCK == InitPCK /\ [][CallPCK \/ CallPCKCurve]_vars

\* the keypoints whose distance to the ground truth is strictly below
\* alpha * side (squares compared; alpha = <<num, den>> >= 0)
CorrectSet(pred, gt, side, alpha) ==
    {k \in {<<n, c>> : n \in 1..Len(pred), c \in 1..Len(pred[1])} :
        alpha[2] * alpha[2] * SqDist(pred[k[1]][k[2]], gt[k[1]][k[2]])
            < (alpha[1] * side) * (alpha[1] * side)}

CorrectCount(pred, gt, side, alpha) == Cardinality(CorrectSet(pred, gt, side, alpha))

\* C6: PCK counts a keypoint iff its Euclidean distance to the ground truth is
\* strictly less than alpha * side_length and returns (count / (N*C), count);
\* with alpha = 0 the count is 0 even when pred = gt; PCK_curve_pnts returns,
\* for each alpha of its sequence in order, the count PCK gives for it.
C6_PCKCountsStrictlyWithin ==
    ret # <<>> =>
        IF call.fn = "PCK"
        THEN LET count == CorrectCount(call.pred, call.gt, call.img_side_len, call.alpha)
             IN  /\ ret[1] = <<<<count, Len(call.pred) * Len(call.pred[1])>>, count>>
                 /\ call.alpha[1] = 0 => ret[1][2] = 0
        ELSE /\ Len(ret[1]) = Len(call.sp)
             /\ \A i \in 1..Len(call.sp) :
                  ret[1][i] = CorrectCount(call.pred, call.gt, call.img_side_len, call.sp[i])

\* C6 witness: PCK has run with alpha = 0 on a prediction equal to the ground
\* truth, two keypoints
C6_Witness ==
    /\ ret # <<>> /\ call.fn = "PCK"
    /\ call.alpha[1] = 0 /\ call.pred = call.gt
    /\ Len(call.pred) * Len(call.pred[1]) = 2

(***************************************************************************)
(* SpecDisc: discrepancy called with the heads in both orders.             *)
(***************************************************************************)
\* batches hold 1..MaxBatch samples
MaxBatch == 2
\* head predictions are 0/Scale .. MaxPred/Scale
MaxPred == 2

Samples == {1, 2}
Feats == {1, 2}

Batches == UNION {[1..n -> Samples] : n \in 1..MaxBatch}

InitDisc ==
    /\ EvalUnused
    /\ \E s \in Batches, t \in Batches, b \in [Samples -> Feats] :
         \E f \in [Feats -> 0..MaxPred], g \in [Feats -> 0..MaxPred] :
            call = [fn |-> "discrepancy", source_data |-> s, target_data |-> t,
                    base_net |-> b, h1 |-> f, h2 |-> g]
    /\ ret = [h1h2 |-> <<>>, h2h1 |-> <<>>]

\* discrepancy(src, tgt, base, h1, h2)
CallDiscrepancy ==
    /\ call.fn = "discrepancy" /\ ret.h1h2 = <<>>
    /\ ret' = [ret EXCEPT !.h1h2 =
                 <<discrepancy(call.source_data, call.target_data,
                               call.base_net, call.h1, call.h2)>>]
    /\ UNCHANGED <<call, evalVars>>

\* discrepancy(src, tgt, base, h2, h1)
CallDiscrepancySwapped ==
    /\ call.fn = "discrepancy" /\ ret.h2h1 = <<>>
    /\ ret' = [ret EXCEPT !.h2h1 =
                 <<discrepancy(call.source_data, call.target_data,
                               call.base_net, call.h2, call.h1)>>]
    /\ UNCHANGED <<call, evalVars>>

SpecDisc == InitDisc /\ [][CallDiscrepancy \/ CallDiscrepancySwapped]_vars

\* the two per-domain distances of the call
SrcDistance == Disagreement(Apply(call.base_net, call.source_data), call.h1, call.h2)
TgtDistance == Disagreement(Apply(call.base_net, call.target_data), call.h1, call.h2)

\* C7: when head_1 and head_2 are the same function, discrepancy returns a
\* scalar equal to 0, the per-domain distance being 0 on source and on target.
C7_SameHeadsGiveZero ==
    (ret.h1h2 # <<>> /\ call.h1 = call.h2) =>
        /\ ret.h1h2[1][2][1] = 0
        /\ SrcDistance[1] = 0
        /\ TgtDistance[1] = 0

\* C7 witness: discrepancy has run with one head in both roles, a
\* non-constant one, on batches of different sizes
C7_Witness ==
    /\ ret.h1h2 # <<>> /\ call.h1 = call.h2
    /\ call.h1[1] # call.h1[2]
    /\ Len(call.source_data) # Len(call.target_data)

\* C8: discrepancy(src, tgt, base, h1, h2) and discrepancy(src, tgt, base, h2,
\* h1) return the same scalar, which is non-negative and equal to
\* |distance(h1(f_src), h2(f_src)) - distance(h1(f_tgt), h2(f_tgt))|.
C8_SwapSymmetricAbsDifference ==
    (ret.h1h2 # <<>> /\ ret.h2h1 # <<>>) =>
        LET a == ret.h1h2[1][2]
            b == ret.h2h1[1][2]
        IN  /\ REq(a, b)
            /\ a[1] >= 0 /\ a[2] > 0
            /\ \/ REq(a, RDiff(SrcDistance, TgtDistance))
               \/ REq(a, RDiff(TgtDistance, SrcDistance))
            /\ ret.h1h2[1][1] = ret.h2h1[1][1]

\* C8 witness: both orders have run with different heads, the target
\* distance exceeding the source distance
C8_Witness ==
    /\ ret.h1h2 # <<>> /\ ret.h2h1 # <<>>
    /\ call.h1 # call.h2
    /\ ~RLeq(TgtDistance, SrcDistance)

(***************************************************************************)
(* Spec: one call of evaluate.  The arguments, the networks' flags and the *)
(* dataset are drawn in three families: every choice of networks and flags *)
(* on a dataset of at most one image; one, two and twice-the-same heads on *)
(* every dataset of the image pool; every visualization setting on         *)
(* datasets of single-image batches.                                       *)
(***************************************************************************)
\* a dataset holds at most MaxPoints images
MaxPoints == 2
\* disp_interval is 1..MaxInterval
MaxInterval == 2
\* the visualization family has at most MaxVisBatches batches
MaxVisBatches == 3

\* 1 x 2 heat maps with the peak in the left and in the right cell
PeakLeft == <<<<1, 0>>>>
PeakRight == <<<<0, 1>>>>

\* an image: what the first and the second head answer on it, and its
\* ground-truth keypoint (x, y, visible).  With both peaks left the keypoint
\* is predicted at (0, 0): on the ground truth, or one pixel off; with the
\* peaks apart the ensemble ties and the first head alone does not; with both
\* peaks right the prediction is far from the ground truth
ImagePool ==
    {[o1 |-> PeakLeft,  o2 |-> PeakLeft,  gt |-> <<0, 0, 1>>],
     [o1 |-> PeakLeft,  o2 |-> PeakLeft,  gt |-> <<1, 0, 1>>],
     [o1 |-> PeakRight, o2 |-> PeakLeft,  gt |-> <<0, 0, 1>>],
     [o1 |-> PeakRight, o2 |-> PeakRight, gt |-> <<1, 0, 1>>]}

VisPool ==
    {[o1 |-> PeakLeft, o2 |-> PeakLeft, gt |-> <<0, 0, 1>>],
     [o1 |-> PeakRight, o2 |-> PeakRight, gt |-> <<1, 0, 1>>]}

\* a batch of the loader, one keypoint channel per image
MakeBatch(imgs) ==
    [heat    |-> <<[n \in 1..Len(imgs) |-> <<imgs[n].o1>>],
                   [n \in 1..Len(imgs) |-> <<imgs[n].o2>>]>>,
     gt_kpts |-> [n \in 1..Len(imgs) |-> <<imgs[n].gt>>]]

RECURSIVE MakeLoader(_, _)
\* the images dealt into batches of the given sizes
MakeLoader(imgs, sizes) ==
    IF sizes = <<>> THEN <<>>
    ELSE <<MakeBatch(SubSeq(imgs, 1, Head(sizes)))>>
            \o MakeLoader(SubSeq(imgs, Head(sizes) + 1, Len(imgs)), Tail(sizes))

\* batch-size sequences of at most k images in all
LoaderShapes(k) ==
    {sz \in UNION {[1..m -> 1..k] : m \in 0..k} : SumSeq(sz) <= k}

Fresh ==
    /\ pc = "idle" /\ nets = <<>> /\ previous_states = <<>>
    /\ tot_nkpts = <<>> /\ tot_pnt = 0 /\ idx = 0 /\ result = <<>> /\ err = ""
    /\ pre_training = training
    /\ fetched = <<>> /\ invoked = 0 /\ rendered = <<>> /\ scored = <<>>
    /\ logged = 0
    /\ call = <<>> /\ ret = <<>>

Args(b, p1, p2, size, v, d, g) ==
    [base_net |-> b, pred_net_1 |-> p1, pred_net_2 |-> p2, img_size |-> size,
     vis |-> v, disp_interval |-> d, show_gt |-> g]

InitModes ==
    /\ \E b \in {None, "A"}, p1 \in {None, "A", "B"}, p2 \in {None, "A", "B", "C"},
          v \in BOOLEAN :
         args = Args(b, p1, p2, 10, v, 1, TRUE)
    /\ training \in [NetObjs -> BOOLEAN]
    /\ \E sz \in LoaderShapes(1) : \E imgs \in [1..SumSeq(sz) -> VisPool] :
         loader = MakeLoader(imgs, sz)

InitData ==
    /\ \E p2 \in {None, "B", "C"}, size \in {10, 25} :
         args = Args("A", "B", p2, size, FALSE, 1, TRUE)
    /\ training = [n \in NetObjs |-> TRUE]
    /\ \E sz \in LoaderShapes(MaxPoints) : \E imgs \in [1..SumSeq(sz) -> ImagePool] :
         loader = MakeLoader(imgs, sz)

InitVis ==
    /\ \E v \in BOOLEAN, d \in 1..MaxInterval, g \in BOOLEAN :
         args = Args("A", "B", None, 10, v, d, g)
    /\ training = [n \in NetObjs |-> TRUE]
    /\ \E m \in 0..MaxVisBatches : \E imgs \in [1..m -> VisPool] :
         loader = MakeLoader(imgs, [i \in 1..m |-> 1])

Init == (InitModes \/ InitData \/ InitVis) /\ Fresh

Spec == Init /\ [][Next]_vars

\* the networks taking part in the call
Participating == {args.base_net, args.pred_net_1, args.pred_net_2} \ {None}

\* the backbone is absent, or both predictor heads are
ConfigInvalid ==
    \/ args.base_net = None
    \/ args.pred_net_1 = None /\ args.pred_net_2 = None

Ended == pc \in {"returned", "raised"}

\* C1: when a call that passes the configuration checks ends, by return or by
\* an error raised at any step, every participating network's training-mode
\* flag equals the value it had before the call.
C1_ModesRestoredOnEveryExit ==
    (Ended /\ ~ConfigInvalid) =>
        \A n \in Participating : training[n] = pre_training[n]

\* C2: with the backbone absent or both heads absent the call fails with an
\* assertion error before any computation: no flag changed, no batch fetched,
\* no network invoked, nothing rendered or logged.
C2_ConfigErrorBeforeAnyEffect ==
    /\ (ConfigInvalid /\ pc # "idle") =>
          /\ pc = "raised" /\ err = "AssertionError"
          /\ training = pre_training
          /\ fetched = <<>> /\ invoked = 0 /\ scored = <<>>
          /\ rendered = <<>> /\ logged = 0 /\ result = <<>>
    /\ err = "AssertionError" => ConfigInvalid

\* C2 witness: the call has failed for want of both heads, on a non-empty
\* dataset, with the backbone in training mode
C2_Witness ==
    /\ pc = "raised" /\ err = "AssertionError"
    /\ args.base_net # None /\ args.pred_net_1 = None /\ args.pred_net_2 = None
    /\ training[args.base_net] /\ Len(loader) > 0

NonDecreasing(s) == \A i \in 1..Len(s), j \in 1..Len(s) : i <= j => s[i] <= s[j]
RNonDecreasing(s) == \A i \in 1..Len(s), j \in 1..Len(s) : i <= j => RLeq(s[i], s[j])

\* non-decreasing alpha sequences: the sweep itself and the three-element
\* sequences over four of its values
ProbeSweeps ==
    {thresholds} \cup
    {<<thresholds[i], thresholds[j], thresholds[k]>> :
        i \in {1, 6}, j \in {6, 12}, k \in {12, 21}}

\* C3: at every point of the loop, for sweep indices i <= j, the count
\* accumulated at threshold i is at most the one at threshold j; and the
\* per-batch counts of PCK_curve_pnts are non-decreasing along any
\* non-decreasing alpha sequence.
C3_CountsMonotoneInThreshold ==
    /\ pc \in {"loop", "recovered"} => NonDecreasing(tot_nkpts)
    /\ pc \in {"normalized", "returned"} => RNonDecreasing(tot_nkpts)
    /\ (pc = "loop" /\ idx > 0) =>
          \A sp \in ProbeSweeps :
              NonDecreasing(PCK_curve_pnts(sp, BatchKpts(loader[idx], args),
                                           XY(loader[idx].gt_kpts), args.img_size))

\* C3 witness: two batches in, the accumulated counts differ along the sweep
C3_Witness ==
    /\ pc = "loop" /\ idx = 2
    /\ tot_nkpts[1] < tot_nkpts[11] /\ tot_nkpts[11] < tot_nkpts[12]

\* batch_size x keypoint_count, summed over the dataset
TotalPoints ==
    SumSeq([k \in 1..Len(loader) |->
              Len(loader[k].gt_kpts) * Len(loader[k].gt_kpts[1])])

\* the keypoints of the whole dataset that are correct at sweep index i
TotalCorrect(i) ==
    SumSeq([k \in 1..Len(loader) |->
              CorrectCount(BatchKpts(loader[k], args), XY(loader[k].gt_kpts),
                           args.img_size, thresholds[i])])

\* C4: for a dataset of at least one batch, evaluate returns two scores, the
\* normalized accumulators at sweep index 5 and at the last index (20), each
\* (sum over the batches of the correct count) / (sum over the batches of
\* batch_size x keypoint_count), every normalized value in [0, 1], each batch
\* contributing exactly once, in iterator order.
C4_ReturnsNormalizedScores ==
    pc = "returned" =>
        /\ Len(loader) >= 1 /\ TotalPoints > 0
        /\ result = <<<<TotalCorrect(6), TotalPoints>>, <<TotalCorrect(21), TotalPoints>>>>
        /\ Len(tot_nkpts) = 21
        /\ \A i \in 1..21 :
             /\ tot_nkpts[i] = <<TotalCorrect(i), TotalPoints>>
             /\ 0 <= tot_nkpts[i][1] /\ tot_nkpts[i][1] <= tot_nkpts[i][2]
        /\ fetched = [k \in 1..Len(loader) |-> k - 1]
        /\ scored = fetched

\* C4 witness: a two-batch dataset has been scored with a keypoint just
\* inside the tolerance of sweep index 5 and outside that of index 4
C4_Witness ==
    /\ pc = "returned" /\ Len(loader) = 2
    /\ args.img_size = 25
    /\ tot_nkpts[5][1] < result[1][1]
    /\ Len(PredNets(args)) = 2

IsPrefix(s, t) == Len(s) <= Len(t) /\ s = SubSeq(t, 1, Len(s))

RECURSIVE RenderedUpTo(_)
\* the renderer calls owed for batches 0 .. k-1: none unless visualization is
\* on and the index is a multiple of the interval; then the ground truth of
\* the first image if show_gt, then its predicted keypoints
RenderedUpTo(k) ==
    IF k = 0 THEN <<>>
    ELSE LET j == k - 1
             b == loader[k]
             due == args.vis /\ \E q \in 0..j : j = q * args.disp_interval
             q0 == CHOOSE q \in 0..j : j = q * args.disp_interval
         IN  RenderedUpTo(j) \o
             (IF due /\ args.show_gt
              THEN <<[kind |-> "gt", batch |-> j, pnts |-> XY(b.gt_kpts)[1], tag |-> q0]>>
              ELSE <<>>) \o
             (IF due
              THEN <<[kind |-> "pred", batch |-> j, pnts |-> BatchKpts(b, args)[1], tag |-> q0]>>
              ELSE <<>>)

\* C10: the renderer is invoked for batch k iff visualization is on and k is a
\* multiple of the display interval; then the first image's prediction is
\* rendered once, preceded by its ground truth iff show_gt; the PCK curve is
\* logged exactly once, after the last batch, with or without visualization.
C10_RenderAndLogSchedule ==
    /\ pc \in {"loop", "recovered", "normalized", "returned"} =>
          rendered = RenderedUpTo(idx)
    /\ pc = "raised" =>
          IF ConfigInvalid THEN rendered = <<>>
          ELSE IsPrefix(rendered, RenderedUpTo(Len(loader)))
    /\ pc = "returned" => (logged = 1 /\ idx = Len(loader))
    /\ pc # "returned" => logged = 0

\* C10 witness: a three-batch dataset has been evaluated with visualization
\* on, show_gt set and interval 2: batches 0 and 2 were rendered
C10_Witness ==
    /\ pc = "returned" /\ Len(loader) = 3
    /\ args.vis /\ args.show_gt /\ args.disp_interval = 2
    /\ Len(rendered) = 4

====
